---- MODULE Spec2Model ----
(***************************************************************************)
(* Model of app.py of AapdaMitra-chatbot-api: the two chat handlers        *)
(* (/v1/chat, /v1/employee-chat) and format_response_for_mobile.           *)
(*                                                                         *)
(* Texts are sequences of one-character strings, indexed from 1 in TLA+;   *)
(* the Python operations below take and return Python's 0-based indexes.   *)
(* A JSON object (dict) is a function from its keys, so a missing key is   *)
(* a key outside DOMAIN.                                                   *)
(***************************************************************************)
EXTENDS Integers, Sequences, FiniteSets, TLC

VARIABLES
    pc,             \* position of the handler: idle, loop, call, done
    endpoint,       \* "public" (/v1/chat) or "employee" (/v1/employee-chat)
    request,        \* the request body as it arrived
    messages,       \* local `messages`
    idx,            \* number of messages the for loop has finished
    full_messages,  \* local `full_messages`
    detected,       \* values detect() returned so far in this request
    detect_calls,   \* calls of detect() made in this request
    create_calls,   \* calls of client.chat.completions.create in this request
    sent,           \* the `messages=` argument of those calls
    upstream,       \* what the completion call returned
    exc,            \* the exception the handler caught
    reply,          \* the HTTP response of the handler
    text,           \* argument of format_response_for_mobile
    response,       \* local `response` of format_response_for_mobile
    paragraphs,     \* local `paragraphs`
    formatted,      \* return value of format_response_for_mobile
    fpc             \* position of the formatter: off, loop, done

vars == <<pc, endpoint, request, messages, idx, full_messages, detected,
          detect_calls, create_calls, sent, upstream, exc, reply,
          text, response, paragraphs, formatted, fpc>>

handlerVars == <<pc, endpoint, request, messages, idx, full_messages, detected,
                 detect_calls, create_calls, sent, upstream, exc, reply>>

formatterVars == <<text, response, paragraphs, formatted, fpc>>

----------------------------------------------------------------------------
(* Bounds of the model *)

MaxRuns == 3        \* a formatter input is built from at most MaxRuns runs
MaxMsgs == 2        \* a request carries at most MaxMsgs messages

----------------------------------------------------------------------------
(* Python string operations used by the source *)

max_length == 300

Whitespace == {" ", "\n", "\t", "\r"}

None == <<"None">>

Run(ch, n) == [k \in 1..n |-> ch]

\* Python clamps a slice bound: a negative bound counts from the end.
SliceBound(s, j) ==
    IF j < 0 THEN (IF Len(s) + j < 0 THEN 0 ELSE Len(s) + j)
             ELSE (IF j > Len(s) THEN Len(s) ELSE j)

\* s[:j]
SliceTo(s, j) == SubSeq(s, 1, SliceBound(s, j))

\* s[j:]
SliceFrom(s, j) == SubSeq(s, SliceBound(s, j) + 1, Len(s))

\* s.rfind(ch, start, end): highest 0-based index in [start, end), or -1
rfind(s, ch, start, end) ==
    LET hi   == IF end > Len(s) THEN Len(s) ELSE end
        hits == {k \in start..(hi - 1) : s[k + 1] = ch}
    IN  IF hits = {} THEN -1
        ELSE CHOOSE k \in hits : \A m \in hits : m <= k

\* s.strip(): leading and trailing whitespace removed
strip(s) ==
    LET keep == {k \in 1..Len(s) : s[k] \notin Whitespace}
    IN  IF keep = {} THEN <<>>
        ELSE SubSeq(s, CHOOSE k \in keep : \A m \in keep : k <= m,
                       CHOOSE k \in keep : \A m \in keep : m <= k)

RECURSIVE join(_, _)
\* sep.join(parts)
join(sep, parts) ==
    IF parts = <<>> THEN <<>>
    ELSE IF Len(parts) = 1 THEN parts[1]
    ELSE parts[1] \o sep \o join(sep, Tail(parts))

----------------------------------------------------------------------------
(* format_response_for_mobile *)

Separator == <<"\n", "\n">>

\* the loop entered also at exactly max_length characters
WhileCond_AtLeast(r) == Len(r) >= max_length

WhileCond(r) == Len(r) > max_length

split_point(r) == rfind(r, " ", 0, max_length)

AppendChunk(ps, r) == Append(ps, SliceTo(r, split_point(r)))

\* the remainder kept with its leading space
Remainder_NoStrip(r) == SliceFrom(r, split_point(r))

Remainder(r) == strip(SliceFrom(r, split_point(r)))

AppendLast(ps, r) == IF r # <<>> THEN Append(ps, r) ELSE ps

RECURSIVE FormatLoop(_, _)
FormatLoop(r, ps) ==
    IF WhileCond(r) THEN FormatLoop(Remainder(r), AppendChunk(ps, r))
    ELSE AppendLast(ps, r)

format_response_for_mobile(r) == join(Separator, FormatLoop(r, <<>>))

----------------------------------------------------------------------------
(* Inputs of the formatter: concatenations of at most MaxRuns runs, each   *)
(* of one character repeated 1, 2, max_length-1 or max_length times.       *)

Chars == {"a", " "}

RunLens == {1, 2, max_length - 1, max_length}

RunSet == Chars \X RunLens

RunSeqs == UNION {[1..k -> RunSet] : k \in 0..MaxRuns}

RECURSIVE Expand(_)
Expand(runs) ==
    IF runs = <<>> THEN <<>>
    ELSE Run(runs[1][1], runs[1][2]) \o Expand(Tail(runs))

Texts == {Expand(runs) : runs \in RunSeqs}

----------------------------------------------------------------------------
(* Constants and values of the chat handlers *)

\* one token stands for each literal text of the source
NDRF_PROMPT == <<"NDRF_PROMPT">>

NDRF_EMPLOYEE_PROMPT == <<"NDRF_EMPLOYEE_PROMPT">>

PUBLIC_GREETING == <<"Namaste, I'm NDRF Aapda Sahayta Bot. (public)">>

EMPLOYEE_GREETING == <<"Namaste, I'm NDRF Aapda Sahayta Bot. (personnel)">>

Endpoints == {"public", "employee"}

Prompt(ep) == IF ep = "public" THEN NDRF_PROMPT ELSE NDRF_EMPLOYEE_PROMPT

Greeting(ep) == IF ep = "public" THEN PUBLIC_GREETING ELSE EMPLOYEE_GREETING

EmptyDict == [k \in {} |-> k]

\* d.get(key, default)
get(d, key, default) == IF key \in DOMAIN d THEN d[key] ELSE default

\* Python truth value of a content: None and "" are false
Truthy(c) == c # None /\ c # <<>>

\* not messages or all(not msg.get("content") for msg in messages)
IsEmptyInput(msgs) ==
    \/ msgs = <<>>
    \/ \A k \in 1..Len(msgs) : ~Truthy(get(msgs[k], "content", None))

GreetingReply(ep) ==
    [status |-> 200, body |-> [message |-> Greeting(ep), tokens_used |-> 0]]

\* jsonify({"error": f"An error occurred: {str(e)}"}), 500
ErrorReply(e) ==
    [status |-> 500, body |-> [error |-> <<"An error occurred: ">> \o e]]

SystemMessage(content) == ("role" :> "system") @@ ("content" :> content)

\* the role set only where the caller gave none
ForceRole_Default(msg) == msg @@ ("role" :> "user")

\* msg["role"] = "user"
ForceRole(msg) == ("role" :> "user") @@ msg

\* f"{PROMPT} Respond in {user_language}."
PersonaText(prompt, user_language) ==
    prompt \o <<" Respond in ", user_language, ".">>

\* the language directive written for the first message only
LoopBody_FirstWins(full, msg, user_language, prompt) ==
    IF Len(full) = 1
    THEN Append([full EXCEPT ![1] =
                    SystemMessage(PersonaText(prompt, user_language))], msg)
    ELSE Append(full, msg)

\* full_messages[0]["content"] = ...; full_messages.append(msg)
LoopBody(full, msg, user_language, prompt) ==
    Append([full EXCEPT ![1] =
               SystemMessage(PersonaText(prompt, user_language))], msg)

\* the completion call made as soon as one message is processed
LoopFinished_AfterFirst(i, msgs) == i >= 1

\* the for loop over messages has run through
LoopFinished(i, msgs) == i = Len(msgs)

\* a completion returned as text without re-wrapping
Complete_Unformatted(up) ==
    IF up.choices = <<>> THEN [exc |-> <<"IndexError">>]
    ELSE IF up.choices[1].message.content = None
         THEN [exc |-> <<"TypeError">>]
    ELSE IF "total_tokens" \notin DOMAIN up.usage
         THEN [exc |-> <<"AttributeError">>]
    ELSE [exc |-> None,
          reply |-> [status |-> 200,
                     body |-> [message |-> up.choices[1].message.content,
                               tokens_used |-> up.usage["total_tokens"]]]]

\* a completion without text returned as a result
Complete_NoneText(up) ==
    IF up.choices = <<>> THEN [exc |-> <<"IndexError">>]
    ELSE IF "total_tokens" \notin DOMAIN up.usage
         THEN [exc |-> <<"AttributeError">>]
    ELSE [exc |-> None,
          reply |-> [status |-> 200,
                     body |-> [message |-> up.choices[1].message.content,
                               tokens_used |-> up.usage["total_tokens"]]]]

\* response.choices[0].message.content, format_response_for_mobile,
\* response.usage.total_tokens, jsonify(...), 200
Complete(up) ==
    IF up.choices = <<>> THEN [exc |-> <<"IndexError">>]
    ELSE IF up.choices[1].message.content = None
         THEN [exc |-> <<"TypeError">>]
    ELSE IF "total_tokens" \notin DOMAIN up.usage
         THEN [exc |-> <<"AttributeError">>]
    ELSE [exc |-> None,
          reply |-> [status |-> 200,
                     body |-> [message |-> format_response_for_mobile(
                                               up.choices[1].message.content),
                               tokens_used |-> up.usage["total_tokens"]]]]

----------------------------------------------------------------------------
(* Inputs of the handlers *)

Roles == {"system", "user"}

Contents == {<<>>, <<" ">>, <<"h", "i">>}

Msgs ==
    {rp @@ cp : rp \in {EmptyDict} \cup {("role" :> r) : r \in Roles},
                cp \in {EmptyDict} \cup {("content" :> c) : c \in Contents}}

MsgLists == UNION {[1..k -> Msgs] : k \in 0..MaxMsgs}

Bodies == {EmptyDict} \cup {("messages" :> l) : l \in MsgLists}

\* what detect() can return
Langs == {"en", "hi"}

CompletionTexts ==
    {<<>>, <<"o", "k">>,
     Run("a", max_length - 1) \o <<" ">> \o Run("a", 2),
     Run("a", max_length + 2)}

Usages == {7, 57}

Completion(choices, usage) == [choices |-> choices, usage |-> usage]

Choice(content) == [message |-> [content |-> content]]

\* what client.chat.completions.create can return
Completions ==
    {Completion(<<Choice(t)>>, ("total_tokens" :> u)) :
        t \in CompletionTexts, u \in Usages}
    \cup {Completion(<<>>, ("total_tokens" :> 7)),
          Completion(<<Choice(None)>>, ("total_tokens" :> 7)),
          Completion(<<Choice(<<"o", "k">>)>>, EmptyDict)}

----------------------------------------------------------------------------
(* The handlers, generate_public_chat_response (endpoint "public") and     *)
(* generate_employee_chat_response (endpoint "employee")                   *)

NoRequest == [valid |-> FALSE, data |-> EmptyDict]

HandlerIdle ==
    /\ pc = "idle"
    /\ endpoint = "public"
    /\ request = NoRequest
    /\ messages = <<>>
    /\ idx = 0
    /\ full_messages = <<>>
    /\ detected = <<>>
    /\ detect_calls = 0
    /\ create_calls = 0
    /\ sent = <<>>
    /\ upstream = <<>>
    /\ exc = None
    /\ reply = <<>>

FormatterOff ==
    /\ text = <<>>
    /\ response = <<>>
    /\ paragraphs = <<>>
    /\ formatted = <<>>
    /\ fpc = "off"

Init == HandlerIdle /\ FormatterOff

\* the except clause: the exception becomes the 500 response
Caught(e) ==
    /\ exc' = e
    /\ reply' = ErrorReply(e)
    /\ pc' = "done"

\* request.get_json() raises on a body that is not JSON
ReceiveBadJson(ep) ==
    /\ pc = "idle"
    /\ endpoint' = ep
    /\ request' = NoRequest
    /\ Caught(<<"BadRequest">>)
    /\ UNCHANGED <<messages, idx, full_messages, detected, detect_calls,
                   create_calls, sent, upstream>>
    /\ UNCHANGED formatterVars

\* get_json, data.get('messages', []), the empty check, the system message
Receive(ep, data) ==
    /\ pc = "idle"
    /\ endpoint' = ep
    /\ request' = [valid |-> TRUE, data |-> data]
    /\ messages' = get(data, "messages", <<>>)
    /\ IF IsEmptyInput(messages')
       THEN /\ reply' = GreetingReply(ep)
            /\ pc' = "done"
            /\ UNCHANGED full_messages
       ELSE /\ full_messages' = <<SystemMessage(Prompt(ep))>>
            /\ pc' = "loop"
            /\ UNCHANGED reply
    /\ UNCHANGED <<idx, detected, detect_calls, create_calls, sent, upstream,
                   exc>>
    /\ UNCHANGED formatterVars

\* one iteration of the for loop; msg["content"] raises KeyError
LoopMissingContent ==
    /\ pc = "loop"
    /\ idx < Len(messages)
    /\ "content" \notin DOMAIN messages[idx + 1]
    /\ messages' = [messages EXCEPT ![idx + 1] = ForceRole(@)]
    /\ Caught(<<"KeyError">>)
    /\ UNCHANGED <<endpoint, request, idx, full_messages, detected,
                   detect_calls, create_calls, sent, upstream>>
    /\ UNCHANGED formatterVars

\* one iteration of the for loop; detect() raises
LoopDetectRaises ==
    /\ pc = "loop"
    /\ idx < Len(messages)
    /\ "content" \in DOMAIN messages[idx + 1]
    /\ messages' = [messages EXCEPT ![idx + 1] = ForceRole(@)]
    /\ detect_calls' = detect_calls + 1
    /\ Caught(<<"LangDetectException">>)
    /\ UNCHANGED <<endpoint, request, idx, full_messages, detected,
                   create_calls, sent, upstream>>
    /\ UNCHANGED formatterVars

\* one iteration of the for loop; detect() returns user_language
LoopDetects(user_language) ==
    /\ pc = "loop"
    /\ idx < Len(messages)
    /\ "content" \in DOMAIN messages[idx + 1]
    /\ messages' = [messages EXCEPT ![idx + 1] = ForceRole(@)]
    /\ detect_calls' = detect_calls + 1
    /\ detected' = Append(detected, user_language)
    /\ full_messages' = LoopBody(full_messages, messages'[idx + 1],
                                 user_language, Prompt(endpoint))
    /\ idx' = idx + 1
    /\ UNCHANGED <<pc, endpoint, request, create_calls, sent, upstream, exc,
                   reply>>
    /\ UNCHANGED formatterVars

\* client.chat.completions.create raises
CreateRaises ==
    /\ pc = "loop"
    /\ LoopFinished(idx, messages)
    /\ create_calls' = create_calls + 1
    /\ sent' = Append(sent, full_messages)
    /\ Caught(<<"APIError">>)
    /\ UNCHANGED <<endpoint, request, messages, idx, full_messages, detected,
                   detect_calls, upstream>>
    /\ UNCHANGED formatterVars

\* client.chat.completions.create returns up; the rest of the try block
CreateReturns(up) ==
    /\ pc = "loop"
    /\ LoopFinished(idx, messages)
    /\ create_calls' = create_calls + 1
    /\ sent' = Append(sent, full_messages)
    /\ upstream' = <<up>>
    /\ LET c == Complete(up)
       IN  IF c.exc # None THEN Caught(c.exc)
           ELSE /\ reply' = c.reply
                /\ pc' = "done"
                /\ UNCHANGED exc
    /\ UNCHANGED <<endpoint, request, messages, idx, full_messages, detected,
                   detect_calls>>
    /\ UNCHANGED formatterVars

\* the response is returned; nothing of the request is kept
Respond ==
    /\ pc = "done"
    /\ pc' = "idle"
    /\ endpoint' = "public"
    /\ request' = NoRequest
    /\ messages' = <<>>
    /\ idx' = 0
    /\ full_messages' = <<>>
    /\ detected' = <<>>
    /\ detect_calls' = 0
    /\ create_calls' = 0
    /\ sent' = <<>>
    /\ upstream' = <<>>
    /\ exc' = None
    /\ reply' = <<>>
    /\ UNCHANGED formatterVars

Next ==
    \/ \E ep \in Endpoints : ReceiveBadJson(ep)
    \/ \E ep \in Endpoints, data \in Bodies : Receive(ep, data)
    \/ LoopMissingContent
    \/ LoopDetectRaises
    \/ \E user_language \in Langs : LoopDetects(user_language)
    \/ CreateRaises
    \/ \E up \in Completions : CreateReturns(up)
    \/ Respond

Spec == Init /\ [][Next]_vars

----------------------------------------------------------------------------
(* Properties of the chat handlers *)

\* the caller's messages, as they arrived
Inbound == get(request.data, "messages", <<>>)

\* a content that is empty or holds whitespace only
IsBlank(c) == \A k \in 1..Len(c) : c[k] \in Whitespace

\* C1: a request whose `messages` is absent or empty, or whose every
\* content is empty, absent or blank (whitespace only), is answered with the
\* endpoint's greeting, tokens_used 0 and status 200.
C1_EmptyOrBlankGreeted ==
    (/\ pc = "done"
     /\ request.valid
     /\ \A k \in 1..Len(Inbound) : IsBlank(get(Inbound[k], "content", <<>>)))
    => reply = GreetingReply(endpoint)

\* the completion came back without a choice, a text or a usage count
Malformed(up) ==
    \/ up.choices = <<>>
    \/ up.choices[1].message.content = None
    \/ "total_tokens" \notin DOMAIN up.usage

\* a step of the request processing failed
StepFailed ==
    \/ ~request.valid
    \/ exc = <<"KeyError">>
    \/ detect_calls > Len(detected)
    \/ (create_calls > 0 /\ upstream = <<>>)
    \/ (create_calls > 0 /\ upstream # <<>> /\ Malformed(upstream[1]))

\* C2: whenever a step of the request processing fails (the detector
\* raises, a message has no content, the completion call raises or its
\* response is malformed), the response is HTTP 500 with a non-empty
\* `error` string and carries no message and no tokens_used.
C2_FailureGives500 ==
    (pc = "done" /\ StepFailed) =>
        /\ reply.status = 500
        /\ DOMAIN reply.body = {"error"}
        /\ reply.body.error # <<>>
        /\ exc # None

\* a request that failed at its completion, after two detections
C2_Witness ==
    /\ pc = "done"
    /\ Len(detected) = 2
    /\ create_calls = 1
    /\ upstream # <<>>
    /\ Malformed(upstream[1])
    /\ reply.status = 500

\* C3: whenever the completion call returns text T and usage count U, the
\* response is HTTP 200 with message format_response_for_mobile(T) and
\* tokens_used U.
C3_SuccessFormatted ==
    (pc = "done" /\ create_calls > 0 /\ upstream # <<>>
        /\ ~Malformed(upstream[1])) =>
        LET T == upstream[1].choices[1].message.content
            U == upstream[1].usage["total_tokens"]
        IN  /\ reply.status = 200
            /\ DOMAIN reply.body = {"message", "tokens_used"}
            /\ reply.body.message = format_response_for_mobile(T)
            /\ reply.body.tokens_used = U
            /\ exc = None

\* a completion of 302 characters came back as two paragraphs
C3_Witness ==
    /\ pc = "done"
    /\ upstream # <<>>
    /\ ~Malformed(upstream[1])
    /\ Len(upstream[1].choices[1].message.content) = max_length + 2
    /\ reply.status = 200
    /\ reply.body.message =
           Run("a", max_length - 1) \o Separator \o Run("a", 2)
    /\ reply.body.tokens_used = 57

\* C4: the list sent to the completion client is one system message
\* followed by the inbound messages m1..mn in their order, none dropped,
\* duplicated or reordered, each with role `user` whatever the caller gave.
C4_SentList ==
    \A c \in 1..Len(sent) :
        /\ Len(Inbound) >= 1
        /\ Len(sent[c]) = Len(Inbound) + 1
        /\ sent[c][1]["role"] = "system"
        /\ \A k \in 1..Len(Inbound) :
              /\ DOMAIN sent[c][k + 1] = {"role", "content"}
              /\ sent[c][k + 1]["role"] = "user"
              /\ "content" \in DOMAIN Inbound[k]
              /\ sent[c][k + 1]["content"] = Inbound[k]["content"]

\* two messages were sent, the first given as a system message by the caller
C4_Witness ==
    /\ pc = "done"
    /\ Len(sent) = 1
    /\ Len(Inbound) = 2
    /\ get(Inbound[1], "role", "") = "system"
    /\ "role" \notin DOMAIN Inbound[2]
    /\ Inbound[1]["content"] # Inbound[2]["content"]

\* C8: when every detection succeeds, the system message sent is the
\* endpoint's base persona text followed by " Respond in L." with L the
\* language detected for the last message; earlier detections do not count.
C8_LastLanguageWins ==
    \A c \in 1..Len(sent) :
        /\ Len(detected) = Len(Inbound)
        /\ sent[c][1]["content"] =
               Prompt(endpoint) \o
               <<" Respond in ", detected[Len(detected)], ".">>
        /\ SubSeq(sent[c][1]["content"], 1, Len(Prompt(endpoint))) =
               Prompt(endpoint)

\* the employee endpoint sent a request whose two detections differ
C8_Witness ==
    /\ pc = "done"
    /\ endpoint = "employee"
    /\ Len(sent) = 1
    /\ detected = <<"hi", "en">>
    /\ sent[1][1]["content"] = <<"NDRF_EMPLOYEE_PROMPT", " Respond in ", "en", ".">>

\* C10: in one request the completion client is called at most once, and
\* only after detection has returned for every message; with the greeting
\* neither the detector nor the client is called; after a failure no
\* completion call follows.
C10_CallOrder ==
    /\ create_calls <= 1
    /\ Len(sent) = create_calls
    /\ create_calls = 1 =>
          /\ detect_calls = Len(Inbound)
          /\ Len(detected) = Len(Inbound)
    /\ (pc = "done" /\ reply = GreetingReply(endpoint)) =>
          (detect_calls = 0 /\ create_calls = 0)
    /\ exc # None => pc = "done"

\* the client was called once, after two detections
C10_Witness ==
    /\ pc = "done"
    /\ create_calls = 1
    /\ detect_calls = 2
    /\ Len(Inbound) = 2
    /\ exc = None

----------------------------------------------------------------------------
(* format_response_for_mobile run one loop iteration at a time *)

FmtInit ==
    /\ HandlerIdle
    /\ text \in Texts
    /\ response = text
    /\ paragraphs = <<>>
    /\ formatted = <<>>
    /\ fpc = "loop"

FmtIterate ==
    /\ fpc = "loop"
    /\ WhileCond(response)
    /\ paragraphs' = AppendChunk(paragraphs, response)
    /\ response' = Remainder(response)
    /\ UNCHANGED <<text, formatted, fpc>>
    /\ UNCHANGED handlerVars

FmtReturn ==
    /\ fpc = "loop"
    /\ ~WhileCond(response)
    /\ paragraphs' = AppendLast(paragraphs, response)
    /\ formatted' = join(Separator, paragraphs')
    /\ fpc' = "done"
    /\ UNCHANGED <<text, response>>
    /\ UNCHANGED handlerVars

FmtNext == FmtIterate \/ FmtReturn

FmtSpec == FmtInit /\ [][FmtNext]_vars

----------------------------------------------------------------------------
(* Properties of format_response_for_mobile *)

\* C5: every chunk format_response_for_mobile emits, other than the final
\* one, is at most max_length (300) characters long, also when the text has
\* no space in its first 300 characters.
C5_ChunksWithinThreshold ==
    fpc = "done" =>
        \A k \in 1..(Len(paragraphs) - 1) : Len(paragraphs[k]) <= max_length

\* C6: re-joining the chunks of the output with a single space in place of
\* each paragraph separator gives back the input text exactly.  (No input
\* of the model holds a line break, so the separators of the output are
\* exactly the joints between chunks.)
C6_RejoinReconstructs ==
    fpc = "done" =>
        /\ formatted = join(Separator, paragraphs)
        /\ join(<<" ">>, paragraphs) = text

\* C7 (as stated): a text of at most max_length characters comes out as
\* exactly one chunk, equal to the text.
C7_ShortTextOneChunk ==
    (fpc = "done" /\ Len(text) <= max_length) =>
        (Len(paragraphs) = 1 /\ formatted = text)

\* C7 (amended): a text of at most max_length characters comes out
\* unchanged; it is exactly one chunk when the text is non-empty and no
\* chunk at all when the text is empty.
C7_ShortTextUnchanged ==
    (fpc = "done" /\ Len(text) <= max_length) =>
        /\ formatted = text
        /\ paragraphs = (IF text = <<>> THEN <<>> ELSE <<text>>)

C7_Witness ==
    /\ fpc = "done"
    /\ Len(text) = max_length
    /\ split_point(text) = -1
    /\ paragraphs = <<text>>

\* C9: every iteration of the loop of format_response_for_mobile strictly
\* shortens the remaining text, also with cut point -1 and with cut point
\* 0, so the loop runs at most Len(text) times and cannot run forever.
C9_EachIterationShortens ==
    [][(fpc = "loop" /\ fpc' = "loop") =>
            /\ Len(response') < Len(response)
            /\ Len(paragraphs') = Len(paragraphs) + 1
            /\ Len(paragraphs') + Len(response') <= Len(text)]_vars

\* a run whose first cut point was 0 and whose second was -1
C9_Witness ==
    /\ fpc = "done"
    /\ split_point(text) = 0
    /\ Len(paragraphs) = 3
    /\ paragraphs[1] = <<>>
    /\ Len(paragraphs[2]) > max_length

====
